---- MODULE Spec2Model ----
(***************************************************************************)
(* sBitx Branch Manager: the checkout-and-build worker, the UI event queue *)
(* and the configuration store, as a state machine.                        *)
(*                                                                         *)
(* Two threads share the state: the Tk UI thread (handlers on_*, and the   *)
(* check_queue poll) and at most one background worker thread (the branch  *)
(* fetch or the checkout-and-build run).  They communicate through         *)
(* task_queue and both read and write the configuration file.             *)
(***************************************************************************)
EXTENDS Integers, Sequences, FiniteSets, TLC

(***************************************************************************)
(* Bounds of the model.                                                    *)
(***************************************************************************)
\* number of background workers (fetch or checkout-and-build) ever started
MaxRuns == 2

(***************************************************************************)
(* Values.                                                                 *)
(***************************************************************************)
\* Python's None (and the empty string: both are falsy where the code tests)
None == ""

TARGET_PATH == "/home/pi/sbitx"

DefaultUrl == "https://github.com/drexjj/sbitx.git"

\* DirectoryStatus
DOES_NOT_EXIST == "does_not_exist"
GIT_REPO == "git_repo"
NON_GIT == "non_git"

\* what the user may type into the add entry
RawInputs == {"", "drexjj/sbitx", " octo/cat ", "not a url"}

\* branch lists a remote listing may yield (already sorted by fetch_branches)
BranchLists == {<<>>, <<"dev", "main">>, <<"main">>}

\* exit codes of the build command
BuildExitCodes == {0, 1, 2}

(***************************************************************************)
(* Repository.validate_and_normalize_url, on strings.                      *)
(***************************************************************************)
WordAlphabet == "abcdefghijklmnopqrstuvwxyzABCDEFGHIJKLMNOPQRSTUVWXYZ0123456789_-"

\* the characters of [\w-]
WordChars == {SubSeq(WordAlphabet, i, i) : i \in 1..Len(WordAlphabet)}

CharAt(s, i) == SubSeq(s, i, i)

StartsWith(s, p) == Len(s) >= Len(p) /\ SubSeq(s, 1, Len(p)) = p

EndsWith(s, p) == Len(s) >= Len(p) /\ SubSeq(s, Len(s) - Len(p) + 1, Len(s)) = p

DropPrefix(s, p) == SubSeq(s, Len(p) + 1, Len(s))

DropSuffix(s, p) == SubSeq(s, 1, Len(s) - Len(p))

\* str.strip(), for blanks
RECURSIVE Strip(_)
Strip(s) ==
    IF Len(s) = 0 THEN s
    ELSE IF CharAt(s, 1) = " " THEN Strip(SubSeq(s, 2, Len(s)))
    ELSE IF CharAt(s, Len(s)) = " " THEN Strip(SubSeq(s, 1, Len(s) - 1))
    ELSE s

\* [\w-]+
IsName(s) == Len(s) > 0 /\ \A i \in 1..Len(s) : CharAt(s, i) \in WordChars

\* [\w-]+/[\w-]+
IsOwnerRepo(s) ==
    \E k \in 1..Len(s) :
        /\ CharAt(s, k) = "/"
        /\ IsName(SubSeq(s, 1, k - 1))
        /\ IsName(SubSeq(s, k + 1, Len(s)))

\* ([\w-]+/[\w-]+)(\.git)?$ : the owner/repo part, or None when there is no match
OwnerRepoOptGit(s) ==
    IF IsOwnerRepo(s) THEN s
    ELSE IF EndsWith(s, ".git") /\ IsOwnerRepo(DropSuffix(s, ".git")) THEN DropSuffix(s, ".git")
    ELSE None

HttpsPrefix == "https://github.com/"

SshPrefix == "git@github.com:"

ShortPrefix == "github.com/"

\* the short form returned with its host left in
validate_and_normalize_urlShortKeepsHost(raw) ==
    LET url == Strip(raw) IN
    IF StartsWith(url, HttpsPrefix) /\ OwnerRepoOptGit(DropPrefix(url, HttpsPrefix)) # None
    THEN HttpsPrefix \o OwnerRepoOptGit(DropPrefix(url, HttpsPrefix)) \o ".git"
    ELSE IF StartsWith(url, SshPrefix) /\ OwnerRepoOptGit(DropPrefix(url, SshPrefix)) # None
    THEN (IF EndsWith(url, ".git") THEN url ELSE url \o ".git")
    ELSE IF StartsWith(url, ShortPrefix) /\ IsOwnerRepo(DropPrefix(url, ShortPrefix))
    THEN HttpsPrefix \o url \o ".git"
    ELSE IF IsOwnerRepo(url)
    THEN HttpsPrefix \o url \o ".git"
    ELSE None

\* the SSH form with .git appended whether or not it is there
validate_and_normalize_urlSshAlwaysAppends(raw) ==
    LET url == Strip(raw) IN
    IF StartsWith(url, HttpsPrefix) /\ OwnerRepoOptGit(DropPrefix(url, HttpsPrefix)) # None
    THEN HttpsPrefix \o OwnerRepoOptGit(DropPrefix(url, HttpsPrefix)) \o ".git"
    ELSE IF StartsWith(url, SshPrefix) /\ OwnerRepoOptGit(DropPrefix(url, SshPrefix)) # None
    THEN url \o ".git"
    ELSE IF StartsWith(url, ShortPrefix) /\ IsOwnerRepo(DropPrefix(url, ShortPrefix))
    THEN HttpsPrefix \o DropPrefix(url, ShortPrefix) \o ".git"
    ELSE IF IsOwnerRepo(url)
    THEN HttpsPrefix \o url \o ".git"
    ELSE None

validate_and_normalize_url(raw) ==
    LET url == Strip(raw) IN
    IF StartsWith(url, HttpsPrefix) /\ OwnerRepoOptGit(DropPrefix(url, HttpsPrefix)) # None
    THEN HttpsPrefix \o OwnerRepoOptGit(DropPrefix(url, HttpsPrefix)) \o ".git"
    ELSE IF StartsWith(url, SshPrefix) /\ OwnerRepoOptGit(DropPrefix(url, SshPrefix)) # None
    THEN (IF EndsWith(url, ".git") THEN url ELSE url \o ".git")
    ELSE IF StartsWith(url, ShortPrefix) /\ IsOwnerRepo(DropPrefix(url, ShortPrefix))
    THEN HttpsPrefix \o DropPrefix(url, ShortPrefix) \o ".git"
    ELSE IF IsOwnerRepo(url)
    THEN HttpsPrefix \o url \o ".git"
    ELSE None

\* the Repository record; added_date (a timestamp no operation reads) is left out
NoRepo == [url |-> None, display_name |-> None]

\* re.search(r'github\.com[/:]([\w-]+/[\w-]+)', normalized_url) on a normalized url
DisplayName(normalized) ==
    IF StartsWith(normalized, HttpsPrefix)
    THEN DropSuffix(DropPrefix(normalized, HttpsPrefix), ".git")
    ELSE DropSuffix(DropPrefix(normalized, SshPrefix), ".git")

create_new(raw) ==
    LET normalized_url == validate_and_normalize_url(raw) IN
    IF normalized_url = None THEN NoRepo
    ELSE [url |-> normalized_url, display_name |-> DisplayName(normalized_url)]

(***************************************************************************)
(* The configuration file (ConfigManager) as a value.                      *)
(***************************************************************************)
\* _create_default_config: the dictionary written when no file exists
DefaultConfig ==
    [repositories |-> <<create_new("drexjj/sbitx")>>,
     default_repositories |-> <<DefaultUrl>>,
     last_used_repo |-> "",
     last_used_branch |-> ""]

\* a configuration file holding the dictionary c
FileOf(c) == [exists |-> TRUE, content |-> c]

\* no configuration file on disk
NoFile == [exists |-> FALSE, content |-> DefaultConfig]

\* load_config: the dictionary read, and the file afterwards (a missing file
\* is created with the default dictionary)
\* a file whose text json.load rejects
CorruptContent == [text |-> "{ repositories: ["]

CorruptFile == FileOf(CorruptContent)

\* load_config, lines 66-75: the text of the ConfigError raised after the
\* rename
CorruptedText ==
    "Config file is corrupted\nBackup saved to: repositories.json.backup\nCreating new config..."

\* load_config: the configuration returned, the file it leaves at the
\* configuration path, and whether it renamed the file to the backup path
\* and raised ConfigError (then nothing is returned, and nothing is written
\* at the configuration path)
load_config(file) ==
    IF ~file.exists
    THEN [config |-> DefaultConfig, file |-> FileOf(DefaultConfig), raised |-> FALSE]
    ELSE IF file.content = CorruptContent
    THEN [file |-> NoFile, raised |-> TRUE]
    ELSE [config |-> file.content, file |-> file, raised |-> FALSE]

\* get_last_used
get_last_used(file) ==
    LET config == load_config(file).config
    IN <<config.last_used_repo, config.last_used_branch>>

\* is_default_repository
\* a check that protects nothing
is_default_repositoryNothingProtected(file, url) ==
    \E i \in 1..Len(load_config(file).config.default_repositories) :
        load_config(file).config.default_repositories[i] = url /\ url = ""

is_default_repository(file, url) ==
    \E i \in 1..Len(load_config(file).config.default_repositories) :
        load_config(file).config.default_repositories[i] = url

\* [repo.url for repo in repos]
UrlsOf(repos) == {repos[i].url : i \in 1..Len(repos)}

\* [repo for repo in repos if repo.url != url]
RECURSIVE WithoutUrl(_, _)
WithoutUrl(repos, url) ==
    IF repos = <<>> THEN <<>>
    ELSE IF Head(repos).url = url THEN WithoutUrl(Tail(repos), url)
    ELSE <<Head(repos)>> \o WithoutUrl(Tail(repos), url)

\* save_repositories, run without interruption: load_config, replace the
\* list, save_config
save_repositories(file, repos) ==
    FileOf([load_config(file).config EXCEPT !.repositories = repos])

\* add_repository, run without interruption: <<returned value, file afterwards>>
\* a test that finds no duplicate
AlreadyStoredNever(repos, repo) == FALSE

\* add_repository, lines 147-150: for repo in repos: if repo.url == repository.url
AlreadyStored(repos, repo) == \E i \in 1..Len(repos) : repos[i].url = repo.url

add_repository(file, repo) ==
    LET loaded == load_config(file) IN
    IF AlreadyStored(loaded.config.repositories, repo)
    THEN [ok |-> FALSE, file |-> loaded.file]
    ELSE [ok |-> TRUE,
          file |-> save_repositories(loaded.file, Append(loaded.config.repositories, repo))]

\* remove_repository, run without interruption
remove_repository(file, url) ==
    LET loaded == load_config(file) IN
    IF is_default_repository(file, url)
    THEN [ok |-> FALSE, file |-> loaded.file]
    ELSE IF Len(WithoutUrl(loaded.config.repositories, url)) < Len(loaded.config.repositories)
    THEN [ok |-> TRUE,
          file |-> save_repositories(loaded.file, WithoutUrl(loaded.config.repositories, url))]
    ELSE [ok |-> FALSE, file |-> loaded.file]

(***************************************************************************)
(* The target directory and the commands run in it.                        *)
(***************************************************************************)
NoDirectory == [status |-> DOES_NOT_EXIST, remote |-> None, branch |-> None]

ForeignDirectory == [status |-> NON_GIT, remote |-> None, branch |-> None]

\* the target directory when the program starts
InitTargets ==
    {NoDirectory, ForeignDirectory,
     [status |-> GIT_REPO, remote |-> "https://github.com/drexjj/sbitx", branch |-> "main"],
     [status |-> GIT_REPO, remote |-> "git@github.com:octo/cat.git", branch |-> "dev"]}

\* how a subprocess.run call ends: exit status 0, another exit status, or
\* TimeoutExpired
CmdOutcomes == {"ok", "fail", "timeout"}

\* check_directory_status: the statuses it may return, "raise" when the
\* check times out or cannot be executed
check_directory_status(t) ==
    IF t.status = DOES_NOT_EXIST THEN {DOES_NOT_EXIST}
    ELSE IF t.status = GIT_REPO THEN {GIT_REPO, "raise"}
    ELSE {NON_GIT, "raise"}

\* get_current_remote when its command succeeds
get_current_remote(t) ==
    IF validate_and_normalize_url(t.remote) # None
    THEN validate_and_normalize_url(t.remote)
    ELSE t.remote

\* detect_current_repo_branch: the (current_repo_url, current_branch_name)
\* pairs it may leave; a failing command yields None
\* the external commands detect_current_repo_branch runs on the thread that
\* calls it: none when the path does not exist (Path.exists is a system
\* call), else the work-tree query, and the remote and branch queries when
\* the work-tree query can succeed
CommandsOfDetect(t) ==
    IF t.status = DOES_NOT_EXIST THEN {}
    ELSE IF t.status = GIT_REPO
    THEN {"git rev-parse --is-inside-work-tree", "git config --get remote.origin.url",
          "git rev-parse --abbrev-ref HEAD"}
    ELSE {"git rev-parse --is-inside-work-tree"}

detect_current_repo_branch(t) ==
    {[url |-> None, branch |-> None]} \cup
    IF t.status = GIT_REPO
    THEN {[url |-> u, branch |-> b] :
            u \in {get_current_remote(t), None}, b \in {t.branch, None}}
    ELSE {}

VARIABLES
    \* MainWindow fields
    repositories, current_branches, selected_repo, selected_branch,
    current_repo_url, current_branch_name, progress_dialog, task_queue,
    \* widgets: the state of the controls, the listbox selection (0: none),
    \* the values offered by the branch combobox
    controls_enabled, listbox_sel, branch_combo_values,
    \* the UI thread inside on_add_repository, the worker thread
    ui, worker,
    \* the world: configuration file, target directory
    config_file, target,
    \* history: what the latest worker invoked and put; the events put and
    \* the events taken off the queue since it started (with those still
    \* queued then); workers started; the persisted last-used pair when the
    \* latest worker started; the external commands the UI thread has run
    trace, produced, consumed, runs, last_used_before, ui_commands,
    \* the backup of a corrupted configuration file, and the text of the
    \* configuration error shown at start-up (None: no error)
    backup_file, config_error,
    \* the call of a function that is followed on its own: its argument and
    \* what it returned (NoCall while the program runs)
    fn_call,
    \* the repository of the latest branch list taken off the queue, and
    \* that list
    fetched

uiVars == <<repositories, current_branches, selected_repo, selected_branch,
            current_repo_url, current_branch_name, progress_dialog,
            controls_enabled, listbox_sel, branch_combo_values, ui>>

histVars == <<trace, produced, consumed, runs, last_used_before, ui_commands,
              backup_file, config_error,
                   fn_call, fetched>>

vars == <<uiVars, task_queue, worker, config_file, target, histVars>>

\* no function is followed on its own
NoCall == [fn |-> None]

\* no branch list has been taken off the queue
NoBranches == [url |-> None, branches |-> <<>>]

(***************************************************************************)
(* Events, the queue, and the history entries.                             *)
(***************************************************************************)
\* a (msg_type, msg_data) tuple: msg_data is a text, or a branch list
Event(type, msg, branches) == [type |-> type, msg |-> msg, branches |-> branches]

Progress(text) == Event("progress", text, <<>>)

Error(text) == Event("error", text, <<>>)

\* the events that end a worker
TerminalTypes == {"branches_fetched", "build_success", "build_error", "error"}

\* queue.Queue.put
task_queue_put(q, ev) == Append(q, ev)

\* get_nowait were the queue a stack (queue.LifoQueue): the newest item first
task_queue_get_newest(q) == [item |-> q[Len(q)], rest |-> SubSeq(q, 1, Len(q) - 1)]

\* queue.Queue.get_nowait on a non-empty queue: the item and the rest
task_queue_get_nowait(q) == [item |-> Head(q), rest |-> Tail(q)]

\* history entries: a worker started, an external command run, an event put
StartEntry(kind, url, branch) == [kind |-> "start", op |-> kind, cmd |-> url, res |-> branch]

CallEntry(op, cmd, res) == [kind |-> "call", op |-> op, cmd |-> cmd, res |-> res]

PutEntry(ev) == [kind |-> "put", op |-> ev.type, cmd |-> "", res |-> ev.msg]

(***************************************************************************)
(* Thread states.                                                          *)
(***************************************************************************)
\* no worker thread is running
IdleWorker ==
    [pc |-> "idle", repo_url |-> None, branch |-> None, config |-> DefaultConfig]

\* the UI thread is in no handler
IdleUi == [pc |-> "idle", repo |-> NoRepo, repos |-> <<>>, config |-> DefaultConfig]

\* update_repository_list: the index of the last repository that is the
\* current one, 0 when none is
CurrentIndex(repos, url) ==
    IF url = None \/ url \notin UrlsOf(repos) THEN 0
    ELSE CHOOSE i \in 1..Len(repos) :
            /\ repos[i].url = url
            /\ \A j \in (i + 1)..Len(repos) : repos[j].url # url

\* update_repository_list: the listbox is rebuilt (its selection is lost),
\* the current repository is selected in the listbox and as selected_repo
update_repository_list(repos, url, selected) ==
    [listbox_sel |-> CurrentIndex(repos, url),
     selected_repo |-> IF CurrentIndex(repos, url) # 0
                       THEN repos[CurrentIndex(repos, url)]
                       ELSE selected]

(***************************************************************************)
(* MainWindow.__init__: the states construction can leave.                 *)
(***************************************************************************)
\* the configuration file when the program starts
InitFiles ==
    {NoFile, CorruptFile,
     FileOf([DefaultConfig EXCEPT !.last_used_repo = DefaultUrl, !.last_used_branch = "main"])}

Init ==
    \E t \in InitTargets, f \in InitFiles :
    \E d \in detect_current_repo_branch(t) :
        LET \* load_repositories; a ConfigError leaves self.repositories empty
            \* and skips update_repository_list
            loaded == load_config(f)
            repos0 == IF loaded.raised THEN <<>> ELSE loaded.config.repositories
            autoadd == /\ ~loaded.raised
                       /\ d.url # None
                       /\ d.url \notin UrlsOf(repos0)
                       /\ create_new(d.url) # NoRepo
            repos1 == IF autoadd THEN Append(repos0, create_new(d.url)) ELSE repos0
            file1 == IF autoadd
                     THEN add_repository(loaded.file, create_new(d.url)).file
                     ELSE loaded.file
            shown == IF loaded.raised
                     THEN [listbox_sel |-> 0, selected_repo |-> NoRepo]
                     ELSE update_repository_list(repos1, d.url, NoRepo)
            \* if self.selected_repo: self.on_fetch_branches()
            fetching == shown.selected_repo # NoRepo
        IN
        /\ target = t
        /\ config_file = file1
        /\ repositories = repos1
        /\ current_repo_url = d.url
        /\ current_branch_name = d.branch
        /\ selected_repo = shown.selected_repo
        /\ listbox_sel = shown.listbox_sel
        /\ selected_branch = None
        /\ current_branches = <<>>
        /\ branch_combo_values = <<>>
        /\ progress_dialog = None
        /\ task_queue = <<>>
        /\ ui = IdleUi
        /\ controls_enabled = ~fetching
        /\ worker = IF fetching
                    THEN [IdleWorker EXCEPT !.pc = "fetch", !.repo_url = shown.selected_repo.url]
                    ELSE IdleWorker
        /\ trace = IF fetching
                   THEN <<StartEntry("fetch_branches", shown.selected_repo.url, None)>>
                   ELSE <<>>
        /\ runs = IF fetching THEN 1 ELSE 0
        /\ produced = <<>>
        /\ consumed = <<>>
        /\ last_used_before = get_last_used(file1)
        /\ ui_commands = CommandsOfDetect(t)
        /\ backup_file = IF loaded.raised THEN f ELSE NoFile
        /\ config_error = IF loaded.raised THEN CorruptedText ELSE None
        /\ fn_call = NoCall
        /\ fetched = NoBranches

(***************************************************************************)
(* The worker thread.  A step is one external operation together with the  *)
(* queue put that follows it in the code; what the operation does to the   *)
(* target directory is the environment's choice.                           *)
(***************************************************************************)
\* the worker runs `calls`, then puts ev and goes on as w
PutAndGo(calls, ev, w) ==
    /\ trace' = trace \o calls \o <<PutEntry(ev)>>
    /\ task_queue' = task_queue_put(task_queue, ev)
    /\ produced' = Append(produced, ev)
    /\ worker' = w
    /\ UNCHANGED <<consumed, runs, last_used_before, ui_commands, backup_file, config_error,
                   fn_call, fetched>>

\* the worker runs `calls` and goes on as w without putting an event
RunAndGo(calls, w) ==
    /\ trace' = trace \o calls
    /\ worker' = w
    /\ UNCHANGED <<task_queue, produced, consumed, runs, last_used_before, ui_commands,
                   backup_file, config_error,
                   fn_call, fetched>>

At(pc) == [worker EXCEPT !.pc = pc]

\* except GitError as e: put(('error', f"Git error: {e}")), and the thread ends;
\* the texts leave out the exit code and the advice that follows it
GitErrorTextAsUnexpected(what) == "Unexpected error: " \o what

GitErrorText(what) == "Git error: " \o what

BuildErrorText(what) == "Build error: " \o what

UnexpectedErrorText(what) == "Unexpected error: " \o what

NonGitText ==
    TARGET_PATH \o " exists but is not a git repository.\nPlease backup and remove the directory first."

\* _fetch_branches_thread
FetchBranchesThread ==
    /\ worker.pc = "fetch"
    /\ \E out \in CmdOutcomes, branches \in BranchLists :
        PutAndGo(<<CallEntry("list", "ls-remote", out)>>,
                 IF out = "ok" THEN Event("branches_fetched", "", branches)
                 ELSE IF out = "fail" THEN Error("Failed to fetch branches")
                 ELSE Error("Timeout while fetching branches"),
                 IdleWorker)
    /\ UNCHANGED <<uiVars, config_file, target>>

\* the probe with the two branches of the status test exchanged
ProbeDirectorySwapped ==
    /\ worker.pc = "probe"
    /\ \E status \in check_directory_status(target) :
        LET call == <<CallEntry("probe", "rev-parse", status)>> IN
        IF status = "raise"
        THEN PutAndGo(call, Error(UnexpectedErrorText("probe")), IdleWorker)
        ELSE IF status = NON_GIT
        THEN PutAndGo(call, Error(NonGitText), IdleWorker)
        ELSE IF status = DOES_NOT_EXIST
        THEN PutAndGo(call, Progress("Changing remote and fetching..."), At("change_remote"))
        ELSE PutAndGo(call, Progress("Cloning repository..."), At("clone"))
    /\ UNCHANGED <<uiVars, config_file, target>>

\* the probe without the return that follows the NON_GIT error
ProbeDirectoryNoReturn ==
    /\ worker.pc = "probe"
    /\ \E status \in check_directory_status(target) :
        LET call == <<CallEntry("probe", "rev-parse", status)>> IN
        IF status = "raise"
        THEN PutAndGo(call, Error(UnexpectedErrorText("probe")), IdleWorker)
        ELSE IF status = NON_GIT
        THEN PutAndGo(call, Error(NonGitText), At("change_remote"))
        ELSE IF status = DOES_NOT_EXIST
        THEN PutAndGo(call, Progress("Cloning repository..."), At("clone"))
        ELSE PutAndGo(call, Progress("Changing remote and fetching..."), At("change_remote"))
    /\ UNCHANGED <<uiVars, config_file, target>>

\* the probe in a thread without the final except Exception clause
ProbeDirectoryNoCatchAll ==
    /\ worker.pc = "probe"
    /\ \E status \in check_directory_status(target) :
        LET call == <<CallEntry("probe", "rev-parse", status)>> IN
        IF status = "raise"
        THEN RunAndGo(call, IdleWorker)
        ELSE IF status = NON_GIT
        THEN PutAndGo(call, Error(NonGitText), IdleWorker)
        ELSE IF status = DOES_NOT_EXIST
        THEN PutAndGo(call, Progress("Cloning repository..."), At("clone"))
        ELSE PutAndGo(call, Progress("Changing remote and fetching..."), At("change_remote"))
    /\ UNCHANGED <<uiVars, config_file, target>>

\* _checkout_and_build_thread, lines 401-418: the probe and what is put next
ProbeDirectory ==
    /\ worker.pc = "probe"
    /\ \E status \in check_directory_status(target) :
        LET call == <<CallEntry("probe", "rev-parse", status)>> IN
        IF status = "raise"
        THEN PutAndGo(call, Error(UnexpectedErrorText("probe")), IdleWorker)
        ELSE IF status = NON_GIT
        THEN PutAndGo(call, Error(NonGitText), IdleWorker)
        ELSE IF status = DOES_NOT_EXIST
        THEN PutAndGo(call, Progress("Cloning repository..."), At("clone"))
        ELSE PutAndGo(call, Progress("Changing remote and fetching..."), At("change_remote"))
    /\ UNCHANGED <<uiVars, config_file, target>>

CheckoutProgress(branch) == Progress("Checking out branch " \o branch \o "...")

\* clone_repository, then lines 420-421
CloneRepository ==
    /\ worker.pc = "clone"
    /\ \E out \in CmdOutcomes, left \in {NoDirectory, ForeignDirectory} :
        LET call == <<CallEntry("clone", "clone", out)>> IN
        IF out = "ok"
        THEN /\ target' = [status |-> GIT_REPO, remote |-> worker.repo_url, branch |-> "main"]
             /\ PutAndGo(call, CheckoutProgress(worker.branch), At("checkout"))
        ELSE /\ target' = left
             /\ PutAndGo(call,
                         Error(GitErrorText(IF out = "fail" THEN "Failed to clone repository: Failed to clone repository"
                                            ELSE "Timeout while cloning " \o worker.repo_url)),
                         IdleWorker)
    /\ UNCHANGED <<uiVars, config_file>>

\* change_remote: the commands it runs, given how set-url, prune and fetch end
ChangeRemoteCalls(seturl, prune, fetch) ==
    IF seturl # "ok" THEN <<CallEntry("rewire", "set-url", seturl)>>
    ELSE IF prune = "timeout"
    THEN <<CallEntry("rewire", "set-url", seturl), CallEntry("rewire", "prune", prune)>>
    ELSE <<CallEntry("rewire", "set-url", seturl), CallEntry("rewire", "prune", prune),
           CallEntry("rewire", "fetch", fetch)>>

\* change_remote without the test of fetch_result.returncode
ChangeRemoteReturnsIgnoringFetch(seturl, prune, fetch) ==
    seturl = "ok" /\ prune # "timeout" /\ fetch # "timeout"

\* change_remote returns (TRUE) or raises GitError (FALSE)
ChangeRemoteReturns(seturl, prune, fetch) ==
    seturl = "ok" /\ prune # "timeout" /\ fetch = "ok"

\* change_remote, then lines 420-421
ChangeRemote ==
    /\ worker.pc = "change_remote"
    /\ \E seturl \in CmdOutcomes, prune \in CmdOutcomes, fetch \in CmdOutcomes :
        /\ target' = IF seturl = "ok" THEN [target EXCEPT !.remote = worker.repo_url]
                     ELSE target
        /\ IF ChangeRemoteReturns(seturl, prune, fetch)
           THEN PutAndGo(ChangeRemoteCalls(seturl, prune, fetch),
                         CheckoutProgress(worker.branch), At("checkout"))
           ELSE PutAndGo(ChangeRemoteCalls(seturl, prune, fetch),
                         Error(GitErrorText(IF seturl = "fail" THEN "Failed to change remote: Failed to change remote URL"
                                            ELSE IF seturl = "ok" /\ prune # "timeout" /\ fetch = "fail"
                                            THEN "Failed to change remote: Failed to fetch from new remote"
                                            ELSE "Timeout while fetching from new remote")),
                         IdleWorker)
    /\ UNCHANGED <<uiVars, config_file>>

\* checkout_branch returning False on failure instead of raising GitError
CheckoutBranchNoAbort ==
    /\ worker.pc = "checkout"
    /\ \E out \in CmdOutcomes :
        LET call == <<CallEntry("checkout", "checkout", out)>> IN
        /\ target' = IF out = "ok" THEN [target EXCEPT !.branch = worker.branch] ELSE target
        /\ PutAndGo(call, Progress("Updating submodules..."), At("submodules"))
    /\ UNCHANGED <<uiVars, config_file>>

\* checkout_branch, then lines 424-425
CheckoutBranch ==
    /\ worker.pc = "checkout"
    /\ \E out \in CmdOutcomes :
        LET call == <<CallEntry("checkout", "checkout", out)>> IN
        IF out = "ok"
        THEN /\ target' = [target EXCEPT !.branch = worker.branch]
             /\ PutAndGo(call, Progress("Updating submodules..."), At("submodules"))
        ELSE /\ target' = target
             /\ PutAndGo(call,
                         Error(GitErrorText(IF out = "fail" THEN "Failed to checkout branch: Failed to checkout branch '" \o worker.branch \o "'"
                                            ELSE "Timeout while checking out branch '" \o worker.branch \o "'")),
                         IdleWorker)
    /\ UNCHANGED <<uiVars, config_file>>

\* update_submodules with its failure swallowed: the run goes on to the build
UpdateSubmodulesIgnoreFailure ==
    /\ worker.pc = "submodules"
    /\ \E out \in CmdOutcomes :
        PutAndGo(<<CallEntry("submodules", "submodule update", out)>>,
                 Progress("Building sBitx... (this may take several minutes)"),
                 At("build"))
    /\ UNCHANGED <<uiVars, config_file, target>>

\* update_submodules followed by the build without the put of line 429
UpdateSubmodulesNoProgress ==
    /\ worker.pc = "submodules"
    /\ \E out \in CmdOutcomes :
        LET call == <<CallEntry("submodules", "submodule update", out)>> IN
        IF out = "ok"
        THEN RunAndGo(call, At("build"))
        ELSE PutAndGo(call,
                      Error(GitErrorText(IF out = "fail" THEN "Failed to update submodules: Failed to update submodules"
                                         ELSE "Timeout while updating submodules")),
                      IdleWorker)
    /\ UNCHANGED <<uiVars, config_file, target>>

\* update_submodules, then lines 428-429
UpdateSubmodules ==
    /\ worker.pc = "submodules"
    /\ \E out \in CmdOutcomes :
        LET call == <<CallEntry("submodules", "submodule update", out)>> IN
        IF out = "ok"
        THEN PutAndGo(call, Progress("Building sBitx... (this may take several minutes)"),
                      At("build"))
        ELSE PutAndGo(call,
                      Error(GitErrorText(IF out = "fail" THEN "Failed to update submodules: Failed to update submodules"
                                         ELSE "Timeout while updating submodules")),
                      IdleWorker)
    /\ UNCHANGED <<uiVars, config_file, target>>

\* what run_build finds at target_path/build
BuildScripts == {"file", "missing", "not a file"}

\* how the build command ends: it exits, it does not finish within 15
\* minutes, or subprocess.run cannot start it
BuildEnds == {"exits", "timeout", "cannot run"}

BuildTimeoutText ==
    "Build timeout after 15 minutes\nThe build process is taking too long or may be stuck."

\* run_build, lines 41-49: the BuildError texts of the two script checks
ScriptNotFoundText ==
    "Build script not found at " \o TARGET_PATH \o "/build\nMake sure you're in the correct sBitx directory."

ScriptNotAFileText == TARGET_PATH \o "/build is not a file"

BuildFailedText(returncode) ==
    "Build failed with exit code " \o ToString(returncode)
        \o ".\n\nCheck the terminal output for details."

\* run_build with a failed script check reported as a build failure
RunBuildScriptCheckAsBuildFailed ==
    /\ worker.pc = "build"
    /\ \E script \in BuildScripts, ends \in BuildEnds, returncode \in BuildExitCodes :
        IF script = "missing"
        THEN PutAndGo(<<>>, Event("build_error", ScriptNotFoundText, <<>>), IdleWorker)
        ELSE IF script = "not a file"
        THEN PutAndGo(<<>>, Event("build_error", ScriptNotAFileText, <<>>), IdleWorker)
        ELSE IF ends = "timeout"
        THEN PutAndGo(<<CallEntry("build", "./build sbitx", "timeout")>>,
                      Error(BuildErrorText(BuildTimeoutText)), IdleWorker)
        ELSE IF ends = "cannot run"
        THEN PutAndGo(<<CallEntry("build", "./build sbitx", "cannot run")>>,
                      Error(BuildErrorText("Failed to run build: Permission denied")), IdleWorker)
        ELSE IF returncode = 0
        THEN RunAndGo(<<CallEntry("build", "./build sbitx", ToString(returncode))>>,
                      At("set_last_used"))
        ELSE PutAndGo(<<CallEntry("build", "./build sbitx", ToString(returncode))>>,
                      Event("build_error", BuildFailedText(returncode), <<>>), IdleWorker)
    /\ UNCHANGED <<uiVars, config_file, target>>

\* run_build, then lines 432-441 up to the call of set_last_used
RunBuild ==
    /\ worker.pc = "build"
    /\ \E script \in BuildScripts, ends \in BuildEnds, returncode \in BuildExitCodes :
        IF script = "missing"
        THEN PutAndGo(<<>>, Error(BuildErrorText(ScriptNotFoundText)), IdleWorker)
        ELSE IF script = "not a file"
        THEN PutAndGo(<<>>, Error(BuildErrorText(ScriptNotAFileText)), IdleWorker)
        ELSE IF ends = "timeout"
        THEN PutAndGo(<<CallEntry("build", "./build sbitx", "timeout")>>,
                      Error(BuildErrorText(BuildTimeoutText)), IdleWorker)
        ELSE IF ends = "cannot run"
        THEN PutAndGo(<<CallEntry("build", "./build sbitx", "cannot run")>>,
                      Error(BuildErrorText("Failed to run build: Permission denied")), IdleWorker)
        ELSE IF returncode = 0
        THEN RunAndGo(<<CallEntry("build", "./build sbitx", ToString(returncode))>>,
                      At("set_last_used"))
        ELSE PutAndGo(<<CallEntry("build", "./build sbitx", ToString(returncode))>>,
                      Event("build_error", BuildFailedText(returncode), <<>>), IdleWorker)
    /\ UNCHANGED <<uiVars, config_file, target>>

\* set_last_used, line 215: config = self.load_config()
SetLastUsedLoad ==
    /\ worker.pc = "set_last_used"
    /\ config_file' = load_config(config_file).file
    /\ RunAndGo(<<>>, [worker EXCEPT !.pc = "save_last_used",
                                     !.config = load_config(config_file).config])
    /\ UNCHANGED <<uiVars, target>>

\* set_last_used, lines 216-218: the dictionary read is changed and written
SetLastUsedSave ==
    /\ worker.pc = "save_last_used"
    /\ config_file' = FileOf([worker.config EXCEPT !.last_used_repo = worker.repo_url,
                                                   !.last_used_branch = worker.branch])
    /\ RunAndGo(<<>>, [worker EXCEPT !.pc = "put_success", !.config = DefaultConfig])
    /\ UNCHANGED <<uiVars, target>>

\* line 435
PutBuildSuccess ==
    /\ worker.pc = "put_success"
    /\ PutAndGo(<<>>, Event("build_success", "Build completed successfully!", <<>>), IdleWorker)
    /\ UNCHANGED <<uiVars, config_file, target>>

Worker ==
    \/ FetchBranchesThread
    \/ ProbeDirectory
    \/ CloneRepository
    \/ ChangeRemote
    \/ CheckoutBranch
    \/ UpdateSubmodules
    \/ RunBuild
    \/ SetLastUsedLoad
    \/ SetLastUsedSave
    \/ PutBuildSuccess

(***************************************************************************)
(* The UI thread: one handler at a time.  on_add_repository reads and      *)
(* writes the configuration file while a worker may be running (the        *)
(* <Return> binding of the entry is not a disabled control), so its file   *)
(* accesses are separate steps; every other handler runs with the controls *)
(* enabled, when no worker is alive.                                       *)
(***************************************************************************)
\* thread.start() without disable_controls
StartWorkerNoDisable(kind, w) ==
    /\ runs < MaxRuns
    /\ controls_enabled' = TRUE
    /\ worker' = w
    /\ runs' = runs + 1
    /\ trace' = <<StartEntry(kind, w.repo_url, w.branch)>>
    /\ produced' = task_queue
    /\ consumed' = <<>>
    /\ last_used_before' = get_last_used(config_file)
    /\ UNCHANGED <<ui_commands, backup_file, config_error,
                   fn_call, fetched>>

\* disable_controls and thread.start(): a worker begins as w
StartWorker(kind, w) ==
    /\ runs < MaxRuns
    /\ controls_enabled' = FALSE
    /\ worker' = w
    /\ runs' = runs + 1
    /\ trace' = <<StartEntry(kind, w.repo_url, w.branch)>>
    /\ produced' = task_queue
    /\ consumed' = <<>>
    /\ last_used_before' = get_last_used(config_file)
    /\ UNCHANGED <<ui_commands, backup_file, config_error,
                   fn_call, fetched>>

\* on_fetch_branches once a repository is selected
StartFetch(repo) ==
    StartWorker("fetch_branches", [IdleWorker EXCEPT !.pc = "fetch", !.repo_url = repo.url])

\* on_add_repository up to config_manager.add_repository's load_repositories
OnAddRepository ==
    /\ ui.pc = "idle"
    /\ \E raw \in RawInputs :
        LET url == Strip(raw)
            repo == create_new(url)
            loaded == load_config(config_file)
        IN
        IF url = "" \/ repo = NoRepo
        THEN UNCHANGED <<ui, config_file>>
        ELSE /\ config_file' = loaded.file
             /\ ui' = IF AlreadyStored(loaded.config.repositories, repo)
                      THEN ui
                      ELSE [ui EXCEPT !.pc = "add_load_config",
                                      !.repo = repo,
                                      !.repos = Append(loaded.config.repositories, repo)]
    /\ UNCHANGED <<repositories, current_branches, selected_repo, selected_branch,
                   current_repo_url, current_branch_name, progress_dialog,
                   controls_enabled, listbox_sel, branch_combo_values,
                   task_queue, worker, target, histVars>>

\* save_repositories, line 131-132: config = self.load_config()
AddLoadConfig ==
    /\ ui.pc = "add_load_config"
    /\ config_file' = load_config(config_file).file
    /\ ui' = [ui EXCEPT !.pc = "add_save_config",
                        !.repos = <<>>,
                        !.config = [load_config(config_file).config
                                        EXCEPT !.repositories = ui.repos]]
    /\ UNCHANGED <<repositories, current_branches, selected_repo, selected_branch,
                   current_repo_url, current_branch_name, progress_dialog,
                   controls_enabled, listbox_sel, branch_combo_values,
                   task_queue, worker, target, histVars>>

\* save_repositories, line 133: save_config; then on_add_repository, lines 287-296
AddSaveConfig ==
    /\ ui.pc = "add_save_config"
    /\ config_file' = FileOf(ui.config)
    /\ repositories' = Append(repositories, ui.repo)
    /\ listbox_sel' = Len(repositories) + 1
    /\ selected_repo' = ui.repo
    /\ ui' = IdleUi
    /\ UNCHANGED <<current_branches, selected_branch, current_repo_url,
                   current_branch_name, progress_dialog, controls_enabled,
                   branch_combo_values, task_queue, worker, target, histVars>>

\* self.repositories.pop(index)
Pop(repos, index) == SubSeq(repos, 1, index - 1) \o SubSeq(repos, index + 1, Len(repos))

\* on_remove_repository
OnRemoveRepository ==
    /\ ui.pc = "idle"
    /\ controls_enabled
    /\ listbox_sel # 0
    /\ LET repo == repositories[listbox_sel]
           removed == remove_repository(config_file, repo.url)
           cleared == selected_repo # NoRepo /\ selected_repo.url = repo.url
           shown == update_repository_list(Pop(repositories, listbox_sel), current_repo_url,
                                           IF cleared THEN NoRepo ELSE selected_repo)
       IN
       /\ config_file' = removed.file
       /\ IF removed.ok
          THEN /\ repositories' = Pop(repositories, listbox_sel)
               /\ current_branches' = IF cleared THEN <<>> ELSE current_branches
               /\ selected_repo' = shown.selected_repo
               /\ listbox_sel' = shown.listbox_sel
          ELSE UNCHANGED <<repositories, current_branches, selected_repo, listbox_sel>>
    /\ UNCHANGED <<selected_branch, current_repo_url, current_branch_name,
                   progress_dialog, controls_enabled, branch_combo_values, ui,
                   task_queue, worker, target, histVars>>

\* on_repo_listbox_select: the user picks a row of the enabled listbox
OnRepoListboxSelect ==
    /\ ui.pc = "idle"
    /\ controls_enabled
    /\ \E index \in 1..Len(repositories) :
        /\ listbox_sel' = index
        /\ selected_repo' = repositories[index]
        /\ StartFetch(repositories[index])
    /\ current_branches' = <<>>
    /\ selected_branch' = None
    /\ UNCHANGED <<repositories, current_repo_url, current_branch_name, progress_dialog,
                   branch_combo_values, ui, task_queue, config_file, target>>

\* on_fetch_branches, from the Fetch Branches button
OnFetchBranches ==
    /\ ui.pc = "idle"
    /\ controls_enabled
    /\ IF selected_repo = NoRepo
       THEN UNCHANGED <<controls_enabled, worker, histVars>>
       ELSE StartFetch(selected_repo)
    /\ UNCHANGED <<repositories, current_branches, selected_repo, selected_branch,
                   current_repo_url, current_branch_name, progress_dialog,
                   listbox_sel, branch_combo_values, ui, task_queue, config_file,
                   target>>

\* on_branch_combo_selected: the user picks a value of the enabled combobox
OnBranchComboSelected ==
    /\ ui.pc = "idle"
    /\ controls_enabled
    /\ \E index \in 1..Len(branch_combo_values) :
        selected_branch' = branch_combo_values[index]
    /\ UNCHANGED <<repositories, current_branches, selected_repo, current_repo_url,
                   current_branch_name, progress_dialog, controls_enabled, listbox_sel,
                   branch_combo_values, ui, task_queue, worker, config_file, target,
                   histVars>>

\* on_checkout_and_build
OnCheckoutAndBuild ==
    /\ ui.pc = "idle"
    /\ controls_enabled
    /\ IF selected_repo = NoRepo \/ selected_branch = None
       THEN UNCHANGED <<progress_dialog, controls_enabled, worker, histVars>>
       ELSE /\ progress_dialog' = "Checking out repository and branch..."
            /\ StartWorker("checkout_and_build",
                           [IdleWorker EXCEPT !.pc = "probe",
                                              !.repo_url = selected_repo.url,
                                              !.branch = selected_branch])
    /\ UNCHANGED <<repositories, current_branches, selected_repo, selected_branch,
                   current_repo_url, current_branch_name, listbox_sel,
                   branch_combo_values, ui, task_queue, config_file, target>>

\* check_queue, lines 456-473: the 'branches_fetched' message
\* the 'branches_fetched' message handled without enable_controls
HandleBranchesFetchedNoEnable(msg_data) ==
    /\ current_branches' = msg_data
    /\ branch_combo_values' = msg_data
    /\ selected_branch' =
           IF msg_data = <<>> THEN selected_branch
           ELSE IF /\ current_branch_name # None
                   /\ \E i \in 1..Len(msg_data) : msg_data[i] = current_branch_name
           THEN current_branch_name
           ELSE msg_data[1]
    /\ UNCHANGED <<repositories, selected_repo, current_repo_url, current_branch_name,
                   progress_dialog, listbox_sel, ui_commands, controls_enabled>>
    /\ fetched' = [url |-> trace[1].cmd, branches |-> msg_data]

\* check_queue, lines 456-473: the 'branches_fetched' message
HandleBranchesFetched(msg_data) ==
    /\ current_branches' = msg_data
    /\ branch_combo_values' = msg_data
    /\ selected_branch' =
           IF msg_data = <<>> THEN selected_branch
           ELSE IF /\ current_branch_name # None
                   /\ \E i \in 1..Len(msg_data) : msg_data[i] = current_branch_name
           THEN current_branch_name
           ELSE msg_data[1]
    /\ controls_enabled' = TRUE
    /\ UNCHANGED <<repositories, selected_repo, current_repo_url, current_branch_name,
                   progress_dialog, listbox_sel, ui_commands>>
    /\ fetched' = [url |-> trace[1].cmd, branches |-> msg_data]

\* check_queue, lines 475-477: the 'progress' message
HandleProgress(msg_data) ==
    /\ progress_dialog' = IF progress_dialog # None THEN msg_data ELSE progress_dialog
    /\ UNCHANGED <<repositories, current_branches, selected_repo, selected_branch,
                   current_repo_url, current_branch_name, controls_enabled, listbox_sel,
                   branch_combo_values, ui_commands, fetched>>

\* the terminal messages handled without detect_current_repo_branch
HandleTerminalNoRefresh ==
    /\ progress_dialog' = None
    /\ controls_enabled' = TRUE
    /\ UNCHANGED <<repositories, current_branches, selected_branch, branch_combo_values,
                   current_repo_url, current_branch_name, selected_repo, listbox_sel,
                   ui_commands, fetched>>

\* check_queue, lines 479-518: 'build_success', 'build_error' and 'error'
HandleTerminal ==
    /\ progress_dialog' = None
    /\ \E d \in detect_current_repo_branch(target) :
        LET shown == update_repository_list(repositories, d.url, selected_repo) IN
        /\ current_repo_url' = d.url
        /\ current_branch_name' = d.branch
        /\ selected_repo' = shown.selected_repo
        /\ listbox_sel' = shown.listbox_sel
    /\ controls_enabled' = TRUE
    /\ ui_commands' = ui_commands \cup CommandsOfDetect(target)
    /\ UNCHANGED fetched
    /\ UNCHANGED <<repositories, current_branches, selected_branch, branch_combo_values>>

\* check_queue: one turn of its loop, taking one message off the queue
CheckQueue ==
    /\ ui.pc = "idle"
    /\ task_queue # <<>>
    /\ LET got == task_queue_get_nowait(task_queue) IN
       /\ task_queue' = got.rest
       /\ consumed' = Append(consumed, got.item)
       /\ IF got.item.type = "branches_fetched" THEN HandleBranchesFetched(got.item.branches)
          ELSE IF got.item.type = "progress" THEN HandleProgress(got.item.msg)
          ELSE HandleTerminal
    /\ UNCHANGED <<ui, worker, config_file, target, trace, produced, runs,
                   last_used_before, backup_file, config_error,
                   fn_call>>

Ui ==
    \/ OnAddRepository
    \/ AddLoadConfig
    \/ AddSaveConfig
    \/ OnRemoveRepository
    \/ OnRepoListboxSelect
    \/ OnFetchBranches
    \/ OnBranchComboSelected
    \/ OnCheckoutAndBuild
    \/ CheckQueue

Next == Worker \/ Ui

Spec == Init /\ [][Next]_vars

\* the Tk main loop runs the pending handler and the 100 ms check_queue poll;
\* the worker thread is scheduled
FairSpec ==
    /\ Spec
    /\ WF_vars(CheckQueue)
    /\ WF_vars(AddLoadConfig)
    /\ WF_vars(AddSaveConfig)
    /\ WF_vars(Worker)

(***************************************************************************)
(* Reading the history of the latest worker.                               *)
(***************************************************************************)
\* the external commands the latest worker ran, in order
Calls == SelectSeq(trace, LAMBDA e : e.kind = "call")

\* the events the latest worker put, in order
Puts == SelectSeq(trace, LAMBDA e : e.kind = "put")

\* the latest worker is a checkout-and-build run
IsBuildRun == trace # <<>> /\ trace[1].op = "checkout_and_build"

\* the arguments the run was started with
RunUrl == trace[1].cmd

RunBranch == trace[1].res

\* the run has put an event of this type
HasPut(type) == \E i \in 1..Len(Puts) : Puts[i].op = type

\* the place of an orchestrator operation in the sequence
OpRank(op) ==
    CASE op = "probe" -> 1
      [] op \in {"clone", "rewire"} -> 2
      [] op = "checkout" -> 3
      [] op = "submodules" -> 4
      [] op = "build" -> 5
      [] OTHER -> 0

\* the operation op of the run completed successfully
OpSucceeded(op) ==
    IF op = "probe"
    THEN \E k \in 1..Len(Calls) :
            Calls[k].op = "probe" /\ Calls[k].res \in {DOES_NOT_EXIST, GIT_REPO}
    ELSE IF op = "rewire"
    THEN \E k \in 1..Len(Calls) : Calls[k].cmd = "fetch" /\ Calls[k].res = "ok"
    ELSE IF op = "build"
    THEN \E k \in 1..Len(Calls) : Calls[k].op = "build" /\ Calls[k].res = "0"
    ELSE \E k \in 1..Len(Calls) : Calls[k].op = op /\ Calls[k].res = "ok"

\* the text s holds the text sub
Contains(s, sub) ==
    \E i \in 1..(Len(s) - Len(sub) + 1) : SubSeq(s, i, i + Len(sub) - 1) = sub

\* how a terminal event classifies the run: the message type, and for
\* 'error' the prefix the worker's except clauses give the text
Classification(type, msg) ==
    IF type = "build_success" THEN "Succeeded"
    ELSE IF type = "build_error" THEN "BuildFailed"
    ELSE IF StartsWith(msg, "Git error: ") THEN "GitError"
    ELSE IF StartsWith(msg, "Build error: ") THEN "BuildError"
    ELSE IF StartsWith(msg, "Unexpected error: ") THEN "Unexpected"
    ELSE IF Contains(msg, "exists but is not a git repository") THEN "Configuration"
    ELSE "GitError"

\* a worker is alive, or its final message is still queued
TerminalPending == \E i \in 1..Len(task_queue) : task_queue[i].type \in TerminalTypes

InFlight == worker.pc # "idle" \/ TerminalPending

(***************************************************************************)
(* C1: in a checkout-and-build run the operations are invoked in the order *)
(* probe, clone or rewire (never both), checkout, submodule sync, build;   *)
(* the probe exactly once and first, every other operation at most once,   *)
(* none skipped, and each only after every earlier one succeeded.          *)
(***************************************************************************)
C1_FixedOrder ==
    IsBuildRun =>
        LET calls == Calls
            succeeded == {op \in {"probe", "clone", "rewire", "checkout", "submodules", "build"} :
                             OpSucceeded(op)}
        IN
        /\ (worker.pc # "probe") = (Len(calls) >= 1)
        /\ \A i \in 1..Len(calls) : (calls[i].op = "probe") = (i = 1)
        /\ \A i \in 1..Len(calls) : OpRank(calls[i].op) # 0
        /\ \A i \in 1..Len(calls), j \in 1..Len(calls) :
            i < j =>
                /\ OpRank(calls[i].op) <= OpRank(calls[j].op)
                /\ OpRank(calls[i].op) = OpRank(calls[j].op) =>
                       /\ calls[i].op = "rewire"
                       /\ calls[j].op = "rewire"
                       /\ calls[i].cmd # calls[j].cmd
                /\ OpRank(calls[i].op) < OpRank(calls[j].op) => calls[i].op \in succeeded
        /\ \A j \in 1..Len(calls) :
            \A r \in 1..(OpRank(calls[j].op) - 1) :
                \E i \in 1..(j - 1) : OpRank(calls[i].op) = r

\* a run that went through rewire, checkout, submodule sync and build
C1_Witness ==
    /\ IsBuildRun
    /\ worker.pc = "idle"
    /\ \E i \in 1..Len(Calls) : Calls[i].op = "rewire"
    /\ \E i \in 1..Len(Calls) : Calls[i].op = "build"

(***************************************************************************)
(* C2: the probe result fixes the path: after Absent the next call is      *)
(* clone and rewire is never called; after VersionControlled the next call *)
(* is rewire and clone is never called.                                    *)
(***************************************************************************)
C2_ProbeDecides ==
    (IsBuildRun /\ Len(Calls) >= 1) =>
        /\ Calls[1].res = DOES_NOT_EXIST =>
            /\ \A i \in 1..Len(Calls) : Calls[i].op # "rewire"
            /\ IF Len(Calls) = 1 THEN worker.pc = "clone" ELSE Calls[2].op = "clone"
        /\ Calls[1].res = GIT_REPO =>
            /\ \A i \in 1..Len(Calls) : Calls[i].op # "clone"
            /\ IF Len(Calls) = 1 THEN worker.pc = "change_remote" ELSE Calls[2].op = "rewire"

\* a run whose probe found no directory and that has cloned
C2_Witness ==
    /\ IsBuildRun
    /\ Len(Calls) >= 2
    /\ Calls[1].res = DOES_NOT_EXIST
    /\ Calls[2].op = "clone"

(***************************************************************************)
(* C3: when the probe finds a foreign non-VCS directory the run invokes    *)
(* nothing else, ends at once with a single error event, classified        *)
(* Configuration, that tells the operator to remove the directory, and     *)
(* the persisted last-used pair is what it was when the run started.       *)
(***************************************************************************)
C3_ForeignAborts ==
    (IsBuildRun /\ Len(Calls) >= 1 /\ Calls[1].res = NON_GIT) =>
        /\ Len(Calls) = 1
        /\ worker.pc = "idle"
        /\ Len(Puts) = 1
        /\ Puts[1].op = "error"
        /\ Classification(Puts[1].op, Puts[1].res) = "Configuration"
        /\ Contains(Puts[1].res, "remove the directory")
        /\ get_last_used(config_file) = last_used_before

\* a run whose probe found a foreign directory
C3_Witness ==
    /\ IsBuildRun
    /\ Len(Calls) >= 1
    /\ Calls[1].res = NON_GIT

(***************************************************************************)
(* C4: a run whose build exits 0 ends in Succeeded, and when the Success   *)
(* event is put the persisted last-used pair is the (url, branch) the run  *)
(* was started with; a run whose build exits non-zero ends in BuildFailed  *)
(* with the last-used pair as it was when the run started.                 *)
(***************************************************************************)
C4_BuildOutcome ==
    IsBuildRun =>
        /\ worker.pc = "put_success" => get_last_used(config_file) = <<RunUrl, RunBranch>>
        /\ \A k \in 1..Len(Calls) :
            (worker.pc = "idle" /\ Calls[k].op = "build") =>
                /\ Calls[k].res = "0" =>
                    Classification(Puts[Len(Puts)].op, Puts[Len(Puts)].res) = "Succeeded"
                /\ Calls[k].res \notin {"0", "timeout", "cannot run"} =>
                    /\ Classification(Puts[Len(Puts)].op, Puts[Len(Puts)].res) = "BuildFailed"
                    /\ get_last_used(config_file) = last_used_before

(***************************************************************************)
(* C5: Success is put only by a run whose probe, clone or rewire,          *)
(* checkout, submodule sync and build all succeeded, in that order;        *)
(* BuildFailed only by a run whose clone or rewire, checkout and submodule *)
(* sync all succeeded, and the target then holds the run's repository and  *)
(* branch.                                                                 *)
(***************************************************************************)
\* probe, clone or rewire, checkout and submodule sync succeeded, in order
VersionControlDone ==
    LET calls == Calls IN
    \E a \in 1..Len(calls) :
        /\ calls[a].op = "probe" /\ calls[a].res \in {DOES_NOT_EXIST, GIT_REPO}
        /\ \E b \in (a + 1)..Len(calls) :
            /\ \/ calls[b].op = "clone" /\ calls[b].res = "ok"
               \/ calls[b].cmd = "fetch" /\ calls[b].res = "ok"
            /\ \E c \in (b + 1)..Len(calls) :
                /\ calls[c].op = "checkout" /\ calls[c].res = "ok"
                /\ \E d \in (c + 1)..Len(calls) :
                    /\ calls[d].op = "submodules" /\ calls[d].res = "ok"
                    /\ \A e \in 1..Len(calls) : calls[e].op = "build" => d < e

C5_SuccessOnlyAfterAllSteps ==
    /\ (HasPut("build_success") \/ HasPut("build_error")) => IsBuildRun
    /\ HasPut("build_success") =>
        /\ VersionControlDone
        /\ Calls[Len(Calls)].op = "build"
        /\ Calls[Len(Calls)].res = "0"
    /\ HasPut("build_error") =>
        /\ VersionControlDone
        /\ target.status = GIT_REPO
        /\ target.remote = RunUrl
        /\ target.branch = RunBranch

\* a run that has put Success
C5_Witness == IsBuildRun /\ HasPut("build_success")

(***************************************************************************)
(* C6: a checkout-and-build run puts exactly one terminal event (Success,  *)
(* BuildFailed or Error), as the last thing it does; the event is on the   *)
(* queue or has been taken by the UI, once; and with the UI poll running   *)
(* it is eventually taken.                                                 *)
(***************************************************************************)
BuildTerminalTypes == {"build_success", "build_error", "error"}

\* the terminal events the run has put
TerminalPuts == SelectSeq(Puts, LAMBDA e : e.op \in BuildTerminalTypes)

\* how many terminal events are in the sequence of events q
RECURSIVE CountTerminal(_)
CountTerminal(q) ==
    IF q = <<>> THEN 0
    ELSE (IF Head(q).type \in BuildTerminalTypes THEN 1 ELSE 0) + CountTerminal(Tail(q))

C6_ExactlyOne ==
    IsBuildRun =>
        /\ worker.pc # "idle" => Len(TerminalPuts) = 0
        /\ worker.pc = "idle" =>
            /\ Len(TerminalPuts) = 1
            /\ trace[Len(trace)] = TerminalPuts[1]
        /\ CountTerminal(task_queue) + CountTerminal(consumed) = Len(TerminalPuts)
        /\ CountTerminal(consumed) = 1 => consumed[Len(consumed)].type \in BuildTerminalTypes

\* the run's terminal event has been taken off the queue by check_queue
BuildTerminalConsumed ==
    /\ IsBuildRun
    /\ worker.pc = "idle"
    /\ CountTerminal(consumed) = 1
    /\ task_queue = <<>>

C6_OneTerminalEvent ==
    /\ []C6_ExactlyOne
    /\ (IsBuildRun /\ TerminalPending) ~> BuildTerminalConsumed

\* the UI has taken the error event of a failed run
C6_Witness ==
    /\ BuildTerminalConsumed
    /\ consumed[Len(consumed)].type = "error"

C8_FifoExactlyOnce == consumed \o task_queue = produced

\* several events of one run were queued together and all have been taken
C8_Witness == IsBuildRun /\ Len(consumed) >= 3 /\ task_queue = <<>>

(***************************************************************************)
(* C9: every external operation of a run is preceded by the Progress event *)
(* that describes it.                                                      *)
(***************************************************************************)
\* the Progress event put before an operation
StepProgress(op, branch) ==
    CASE op = "clone" -> Progress("Cloning repository...")
      [] op = "rewire" -> Progress("Changing remote and fetching...")
      [] op = "checkout" -> CheckoutProgress(branch)
      [] op = "submodules" -> Progress("Updating submodules...")
      [] op = "build" -> Progress("Building sBitx... (this may take several minutes)")
      [] OTHER -> Progress("")

\* trace[i] is the first command of an operation
EntersOperation(i) ==
    /\ trace[i].kind = "call"
    /\ trace[i].op = "rewire" => trace[i].cmd = "set-url"

\* the operation the worker is about to invoke
OpOfPc(pc) ==
    CASE pc = "clone" -> "clone"
      [] pc = "change_remote" -> "rewire"
      [] pc = "checkout" -> "checkout"
      [] pc = "submodules" -> "submodules"
      [] pc = "build" -> "build"
      [] OTHER -> ""

\* the claim as made: also the probe is preceded by a Progress event
C9_ProgressBeforeEveryOperation ==
    IsBuildRun =>
        /\ \A i \in 1..Len(trace) :
            EntersOperation(i) =>
                /\ i > 1
                /\ trace[i - 1].kind = "put"
                /\ trace[i - 1].op = "progress"
                /\ trace[i].op # "probe" =>
                       trace[i - 1] = PutEntry(StepProgress(trace[i].op, RunBranch))
        /\ worker.pc \in {"probe", "clone", "change_remote", "checkout", "submodules", "build"} =>
            /\ trace[Len(trace)].kind = "put"
            /\ trace[Len(trace)].op = "progress"

\* as the code has it: every operation but the probe
C9_ProgressBeforeEachStepButProbe ==
    IsBuildRun =>
        /\ \A i \in 1..Len(trace) :
            (EntersOperation(i) /\ trace[i].op # "probe") =>
                /\ i > 1
                /\ trace[i - 1] = PutEntry(StepProgress(trace[i].op, RunBranch))
        /\ \A i \in 1..Len(trace) :
            (trace[i].kind = "call" /\ trace[i].op = "probe") =>
                /\ i = 2
                /\ trace[i - 1].kind = "start"
        /\ OpOfPc(worker.pc) # "" =>
            trace[Len(trace)] = PutEntry(StepProgress(OpOfPc(worker.pc), RunBranch))

\* a run that has invoked the build
C9_Witness == IsBuildRun /\ \E i \in 1..Len(Calls) : Calls[i].op = "build"

(***************************************************************************)
(* C10: the persisted last-used pair changes only in set_last_used of a    *)
(* run that then ends in Succeeded; no other step, of a failing run, of a  *)
(* branch fetch or of adding or removing a repository, changes it.         *)
(***************************************************************************)
C10_OnlySuccessChangesLastUsed ==
    [][get_last_used(config_file') # get_last_used(config_file) =>
          /\ worker.pc = "save_last_used"
          /\ worker'.pc = "put_success"
          /\ get_last_used(config_file') = <<RunUrl, RunBranch>>]_vars

(***************************************************************************)
(* C11: when the UI takes the terminal event of a run (Success,            *)
(* BuildFailed or Error) off the queue it reads the target directory       *)
(* again: the tracked (repository, branch) is then what                    *)
(* detect_current_repo_branch yields for the directory as it is, a failed  *)
(* reading leaving (None, None); the progress dialog is closed, the        *)
(* controls are enabled and the message is the one handed to the dialog.   *)
(***************************************************************************)
C11_RefreshAfterTerminal ==
    [][(/\ task_queue # <<>>
        /\ Head(task_queue).type \in BuildTerminalTypes
        /\ task_queue' = Tail(task_queue)) =>
            /\ [url |-> current_repo_url', branch |-> current_branch_name']
                   \in detect_current_repo_branch(target')
            /\ controls_enabled'
            /\ progress_dialog' = None
            /\ consumed' = Append(consumed, Head(task_queue))]_vars

\* the error of a run that failed after rewiring has been handled: the
\* tracked repository is the run's, the tracked branch is not
C11_Witness ==
    /\ BuildTerminalConsumed
    /\ consumed[Len(consumed)].type = "error"
    /\ controls_enabled
    /\ current_repo_url = RunUrl
    /\ current_branch_name \notin {None, RunBranch}

(***************************************************************************)
(* C12: in rewire a prune that exits non-zero or times out is not fatal:   *)
(* fetch is invoked after it, and rewire succeeds exactly when fetch       *)
(* does.                                                                   *)
(***************************************************************************)
C12_PruneFailureNonFatal ==
    IsBuildRun =>
        \A k \in 1..Len(trace) :
            (trace[k].kind = "call" /\ trace[k].cmd = "prune") =>
                /\ Len(trace) >= k + 2
                /\ trace[k + 1].kind = "call"
                /\ trace[k + 1].cmd = "fetch"
                /\ trace[k + 2].kind = "put"
                /\ trace[k + 2].op = (IF trace[k + 1].res = "ok" THEN "progress" ELSE "error")

(***************************************************************************)
(* C13: rewire runs set-url, prune, fetch in that order; when set-url      *)
(* fails nothing else of rewire is invoked and the run ends in an error;   *)
(* when fetch fails the run ends in an error; checkout is invoked only     *)
(* after set-url and fetch both succeeded.                                 *)
(***************************************************************************)
\* the commands rewire has run, in order
RewireCalls == SelectSeq(Calls, LAMBDA e : e.op = "rewire")

C13_RewireOrder ==
    IsBuildRun =>
        LET rewire == RewireCalls IN
        /\ \A i \in 1..Len(rewire) :
            rewire[i].cmd = (CASE i = 1 -> "set-url" [] i = 2 -> "prune" [] OTHER -> "fetch")
        /\ Len(rewire) <= 3
        /\ (Len(rewire) >= 1 /\ rewire[1].res # "ok") =>
            /\ Len(rewire) = 1
            /\ worker.pc = "idle"
            /\ Puts[Len(Puts)].op = "error"
        /\ (Len(rewire) = 3 /\ rewire[3].res # "ok") =>
            /\ worker.pc = "idle"
            /\ Puts[Len(Puts)].op = "error"
        /\ (Len(rewire) >= 1 /\ \E i \in 1..Len(Calls) : Calls[i].op = "checkout") =>
            /\ Len(rewire) = 3
            /\ rewire[1].res = "ok"
            /\ rewire[3].res = "ok"

\* a run whose fetch failed after set-url and prune, and that stopped there
C13_Witness ==
    /\ IsBuildRun
    /\ Len(RewireCalls) = 3
    /\ RewireCalls[3].res = "fail"
    /\ worker.pc = "idle"

(***************************************************************************)
(* C14: the probe of a run always yields one of the three classifications  *)
(* and never raises: Absent exactly when the path does not exist, and      *)
(* VersionControlled only when the working-tree check exits zero.          *)
(***************************************************************************)
C14_ProbeNeverRaises ==
    (IsBuildRun /\ Len(Calls) >= 1) =>
        /\ Calls[1].op = "probe"
        /\ Calls[1].res \in {DOES_NOT_EXIST, GIT_REPO, NON_GIT}
        /\ Len(Calls) = 1 =>
            /\ (Calls[1].res = DOES_NOT_EXIST) = (target.status = DOES_NOT_EXIST)
            /\ (Calls[1].res = GIT_REPO) => (target.status = GIT_REPO)

(***************************************************************************)
(* C15: a run that reaches the build step with no build script in the      *)
(* target directory, or with one that is not a regular file, does not      *)
(* invoke the build command and ends in an Error event, last-used          *)
(* unchanged.  The claim as made has the event classified Configuration;   *)
(* the code raises BuildError, so the event is classified BuildError.      *)
(***************************************************************************)
\* the run has ended on a failed check of the build script
ScriptCheckFailed ==
    /\ IsBuildRun
    /\ worker.pc = "idle"
    /\ Len(Puts) >= 1
    /\ \/ Contains(Puts[Len(Puts)].res, ScriptNotFoundText)
       \/ Contains(Puts[Len(Puts)].res, ScriptNotAFileText)

\* the run has ended after a successful submodule sync without a build call
EndedBeforeBuildCommand ==
    /\ IsBuildRun
    /\ worker.pc = "idle"
    /\ Len(Calls) >= 1
    /\ Calls[Len(Calls)].op = "submodules"
    /\ Calls[Len(Calls)].res = "ok"

FailedStep ==
    LET c == Calls[Len(Calls)] IN
    IF c.op = "probe" THEN (IF c.res = "raise" THEN "probe raised" ELSE "probe refused")
    ELSE IF c.op \in {"clone", "rewire", "checkout"} THEN c.op
    ELSE IF c.op = "submodules" THEN (IF c.res = "ok" THEN "build not run" ELSE "submodules")
    ELSE IF c.res \in {"timeout", "cannot run"} THEN "build not run"
    ELSE "build exit code"

RunFailed ==
    /\ IsBuildRun
    /\ worker.pc = "idle"
    /\ Len(Calls) >= 1
    /\ Len(Puts) >= 1
    /\ ~HasPut("build_success")

C16_ClassifiedByFailingStep ==
    RunFailed =>
        LET p == Puts[Len(Puts)]
            c == Calls[Len(Calls)]
            class == Classification(p.op, p.res)
        IN  /\ FailedStep \in {"clone", "rewire", "checkout", "submodules"} <=> class = "GitError"
            /\ FailedStep = "build exit code" <=> class = "BuildFailed"
            /\ FailedStep = "build not run" <=> class = "BuildError"
            /\ FailedStep = "probe raised" <=> class = "Unexpected"
            /\ FailedStep = "probe refused" <=> class = "Configuration"
            /\ FailedStep \in {"clone", "rewire", "checkout", "submodules"} =>
                   ~(c.res = "ok" /\ (c.op # "rewire" \/ c.cmd = "fetch"))
            /\ class = "BuildFailed" =>
                   /\ p.op = "build_error"
                   /\ c.op = "build"
                   /\ c.res \in {ToString(rc) : rc \in BuildExitCodes \ {0}}
                   /\ Contains(p.res, "exit code " \o c.res \o ".")
            /\ class # "BuildFailed" => p.op = "error"

\* a run whose submodule update timed out, after the rewire, has ended as a
\* GitError
C16_Witness ==
    /\ RunFailed
    /\ FailedStep = "submodules"
    /\ Calls[Len(Calls)].res = "timeout"
    /\ Len(RewireCalls) = 3
    /\ Classification(Puts[Len(Puts)].op, Puts[Len(Puts)].res) = "GitError"

\* ---------------------------------------------------------------------
\* C17: every external command runs on the worker thread; the UI thread
\* runs none, at start-up, while loading the list, or when it handles a
\* terminal event.
C17_UiRunsNoCommand == ui_commands = {}

\* ---------------------------------------------------------------------
\* C18: a protected URL is never removed.  In every reachable state (that
\* is, after any sequence of add and remove operations, and of runs), the
\* default repository is in the stored list, and remove_repository on a
\* protected URL returns false and leaves the stored list as it is.
StoredRepositories == load_config(config_file).config.repositories

ProtectedUrls ==
    {load_config(config_file).config.default_repositories[i] :
        i \in 1..Len(load_config(config_file).config.default_repositories)}

C18_DefaultNeverRemoved ==
    /\ DefaultUrl \in ProtectedUrls
    /\ DefaultUrl \in UrlsOf(StoredRepositories)
    /\ \A url \in ProtectedUrls :
        LET removed == remove_repository(config_file, url) IN
        /\ ~removed.ok
        /\ load_config(removed.file).config.repositories = StoredRepositories

\* the repository of the target directory, added to the list at start-up, has
\* been removed again (no build has run, so nothing else rewrote the file),
\* and the default repository is the only one left
C18_Witness ==
    /\ runs = 1
    /\ ~IsBuildRun
    /\ ui.pc = "idle"
    /\ current_repo_url # None
    /\ create_new(current_repo_url) # NoRepo
    /\ current_repo_url \notin UrlsOf(StoredRepositories)
    /\ UrlsOf(StoredRepositories) = {DefaultUrl}
    /\ UrlsOf(repositories) = {DefaultUrl}
    /\ controls_enabled

\* ---------------------------------------------------------------------
\* C19: the url is a unique key of the stored repository list.  In every
\* reachable state no two stored records have the same url, and
\* add_repository of a record whose url is stored returns false and leaves
\* the stored list as it is.
C19_UrlIsUniqueKey ==
    /\ \A i, j \in 1..Len(StoredRepositories) :
        StoredRepositories[i].url = StoredRepositories[j].url => i = j
    /\ \A i \in 1..Len(StoredRepositories) :
        LET added == add_repository(config_file, StoredRepositories[i]) IN
        /\ ~added.ok
        /\ load_config(added.file).config.repositories = StoredRepositories

\* the user has added octo/cat, it is stored after the default repository,
\* and the handler is back at rest (a second add of it is refused)
C19_Witness ==
    /\ ui.pc = "idle"
    /\ Len(StoredRepositories) = 2
    /\ StoredRepositories[2] = create_new("octo/cat")
    /\ current_repo_url # create_new("octo/cat").url
    /\ repositories = StoredRepositories

\* ---------------------------------------------------------------------
\* C20: when loading finds the configuration file unparsable, the file is
\* renamed to a backup that keeps the corrupted content, a fresh default
\* configuration is created in its place, the caller is told through a
\* configuration error, and the next load returns the default
\* configuration without an error.  Stated on the state right after the
\* start-up load (no handler has run yet).
AfterCorruptLoad ==
    /\ backup_file.exists
    /\ runs = 0
    /\ repositories = <<>>
    /\ ui.pc = "idle"

C20_CorruptFileReplacedByDefault ==
    AfterCorruptLoad =>
        /\ backup_file = CorruptFile
        /\ config_error # None
        /\ config_file = FileOf(DefaultConfig)
        /\ ~load_config(config_file).raised
        /\ load_config(config_file).config = DefaultConfig

(***************************************************************************)
(* Repository.validate_and_normalize_url followed on its own: the URL is   *)
(* put together from a prefix, an owner, a separator, a repository name, a *)
(* suffix and blanks around it; the function is applied to it, and then to *)
(* what it returned.                                                       *)
(***************************************************************************)
UrlPrefixes ==
    {"", ShortPrefix, HttpsPrefix, SshPrefix, "http://github.com/", "https://notgithub.com/"}

UrlOwners == {"", "octo", "o-c_t0", "oc.to", "not a url"}

UrlSeparators == {"/", ""}

UrlRepos == {"", "cat", "c-4_T", "c at"}

UrlSuffixes == {"", ".git", ".git.git", "/"}

UrlBlanks == {"", " "}

UrlParts ==
    [prefix : UrlPrefixes, owner : UrlOwners, sep : UrlSeparators, repo : UrlRepos,
     suffix : UrlSuffixes, blanks : UrlBlanks]

UrlOf(p) == p.blanks \o p.prefix \o p.owner \o p.sep \o p.repo \o p.suffix \o p.blanks

\* the program itself is at rest: no file, no directory, no worker
AtRest ==
    /\ repositories = <<>>
    /\ current_branches = <<>>
    /\ selected_repo = NoRepo
    /\ selected_branch = None
    /\ current_repo_url = None
    /\ current_branch_name = None
    /\ progress_dialog = None
    /\ task_queue = <<>>
    /\ controls_enabled = TRUE
    /\ listbox_sel = 0
    /\ branch_combo_values = <<>>
    /\ ui = IdleUi
    /\ worker = IdleWorker
    /\ config_file = NoFile
    /\ target = NoDirectory
    /\ trace = <<>>
    /\ produced = <<>>
    /\ consumed = <<>>
    /\ runs = 0
    /\ last_used_before = <<None, None>>
    /\ ui_commands = {}
    /\ backup_file = NoFile
    /\ config_error = None
    /\ fetched = NoBranches

programVars == <<uiVars, task_queue, worker, config_file, target, trace, produced, consumed,
                 runs, last_used_before, ui_commands, backup_file, config_error, fetched>>

NormalizeInit ==
    /\ AtRest
    /\ \E p \in UrlParts :
        fn_call = [fn |-> "validate_and_normalize_url", parts |-> p, url |-> UrlOf(p),
                   applied |-> 0, normalized |-> None, again |-> None]

\* validate_and_normalize_url(url)
NormalizeUrl ==
    /\ fn_call.applied = 0
    /\ fn_call' = [fn_call EXCEPT !.applied = 1,
                                  !.normalized = validate_and_normalize_url(fn_call.url)]
    /\ UNCHANGED programVars

\* validate_and_normalize_url of a url it returned
NormalizeAgain ==
    /\ fn_call.applied = 1
    /\ fn_call.normalized # None
    /\ fn_call' = [fn_call EXCEPT !.applied = 2,
                                  !.again = validate_and_normalize_url(fn_call.normalized)]
    /\ UNCHANGED programVars

NormalizeNext == NormalizeUrl \/ NormalizeAgain

NormalizeSpec == NormalizeInit /\ [][NormalizeNext]_vars

\* ---------------------------------------------------------------------
\* C21: normalize is idempotent on every accepted input.  Whenever the
\* function has been applied to a url it accepted and then to its own
\* result, the second result is accepted and equal to the first.
C21_NormalizeIdempotent ==
    fn_call.applied = 2 =>
        /\ fn_call.again # None
        /\ fn_call.again = fn_call.normalized

\* github.com/octo/cat with blanks around it has been normalized twice
C21_Witness ==
    /\ fn_call.applied = 2
    /\ fn_call.url = " github.com/octo/cat "
    /\ fn_call.again = "https://github.com/octo/cat.git"

\* ---------------------------------------------------------------------
\* C22: owner/repo, github.com/owner/repo and the HTTPS URL (with or
\* without .git) give the HTTPS form ending in .git; the SSH form gives the
\* same SSH form with .git appended exactly once; every other input is
\* invalid, in particular one whose owner or repository name is empty or
\* has a character other than word characters and hyphens.
ExpectedUrl(p) ==
    IF ~(IsName(p.owner) /\ IsName(p.repo) /\ p.sep = "/") THEN None
    ELSE IF p.prefix \in {"", ShortPrefix} /\ p.suffix = ""
    THEN "https://github.com/" \o p.owner \o "/" \o p.repo \o ".git"
    ELSE IF p.prefix = HttpsPrefix /\ p.suffix \in {"", ".git"}
    THEN "https://github.com/" \o p.owner \o "/" \o p.repo \o ".git"
    ELSE IF p.prefix = SshPrefix /\ p.suffix \in {"", ".git"}
    THEN "git@github.com:" \o p.owner \o "/" \o p.repo \o ".git"
    ELSE None

C22_NormalizeByShape ==
    fn_call.applied >= 1 => fn_call.normalized = ExpectedUrl(fn_call.parts)

\* the SSH form without .git, with blanks around it, has been normalized
C22_Witness ==
    /\ fn_call.applied = 1
    /\ fn_call.url = " git@github.com:o-c_t0/c-4_T "
    /\ fn_call.normalized = "git@github.com:o-c_t0/c-4_T.git"

(***************************************************************************)
(* GitManager.fetch_branches followed on its own: `git ls-remote --heads`  *)
(* ends in one of the three ways and, when it exits with 0, has written    *)
(* one line <hash><TAB>refs/heads/<branch> per branch of the remote.       *)
(***************************************************************************)
\* the characters of the lines, in code point order (the order of sorted())
CodePoints == "\t\n -./0123456789ABCDEFGHIJKLMNOPQRSTUVWXYZ_abcdefghijklmnopqrstuvwxyz"

ord(c) == CHOOSE i \in 1..Len(CodePoints) : CharAt(CodePoints, i) = c

\* a < b for str
RECURSIVE StrLess(_, _)
StrLess(a, b) ==
    IF Len(b) = 0 THEN FALSE
    ELSE IF Len(a) = 0 THEN TRUE
    ELSE IF CharAt(a, 1) = CharAt(b, 1)
    THEN StrLess(SubSeq(a, 2, Len(a)), SubSeq(b, 2, Len(b)))
    ELSE ord(CharAt(a, 1)) < ord(CharAt(b, 1))

\* sorted(): x put into a sorted list, after the entries that are not greater
RECURSIVE Insert(_, _)
Insert(x, seq) ==
    IF seq = <<>> THEN <<x>>
    ELSE IF StrLess(x, Head(seq)) THEN <<x>> \o seq
    ELSE <<Head(seq)>> \o Insert(x, Tail(seq))

RECURSIVE sorted(_)
sorted(seq) == IF seq = <<>> THEN <<>> ELSE Insert(seq[Len(seq)], sorted(SubSeq(seq, 1, Len(seq) - 1)))

\* str.find(sub) + 1: where sub first occurs in s, 0 when it does not
Find(s, sub) ==
    IF \E i \in 1..(Len(s) - Len(sub) + 1) : SubSeq(s, i, i + Len(sub) - 1) = sub
    THEN CHOOSE i \in 1..(Len(s) - Len(sub) + 1) :
            /\ SubSeq(s, i, i + Len(sub) - 1) = sub
            /\ \A j \in 1..(i - 1) : SubSeq(s, j, j + Len(sub) - 1) # sub
    ELSE 0

\* str.split(sep)
RECURSIVE split(_, _)
split(s, sep) ==
    IF Find(s, sep) = 0 THEN <<s>>
    ELSE <<SubSeq(s, 1, Find(s, sep) - 1)>> \o split(SubSeq(s, Find(s, sep) + Len(sep), Len(s)), sep)

\* str.replace(old, ''): every occurrence of old is taken out
RECURSIVE replace(_, _)
replace(s, old) ==
    IF Find(s, old) = 0 THEN s
    ELSE SubSeq(s, 1, Find(s, old) - 1) \o replace(SubSeq(s, Find(s, old) + Len(old), Len(s)), old)

\* str.strip()
RECURSIVE strip(_)
strip(s) ==
    IF Len(s) = 0 THEN s
    ELSE IF CharAt(s, 1) \in {" ", "\t", "\n"} THEN strip(SubSeq(s, 2, Len(s)))
    ELSE IF CharAt(s, Len(s)) \in {" ", "\t", "\n"} THEN strip(SubSeq(s, 1, Len(s) - 1))
    ELSE s

\* fetch_branches, lines 91-99: the names of the lines, in the order of the
\* lines
RECURSIVE BranchesOfLines(_)
BranchesOfLines(lines) ==
    IF lines = <<>> THEN <<>>
    ELSE LET line == Head(lines)
             parts == split(line, "\t")
         IN  (IF line # "" /\ Len(parts) = 2
              THEN <<replace(parts[2], "refs/heads/")>>
              ELSE <<>>) \o BranchesOfLines(Tail(lines))

\* fetch_branches without sorted()
fetch_branchesUnsorted(out, stdout) ==
    IF out = "timeout"
    THEN [raised |-> "Timeout while fetching branches", branches |-> <<>>]
    ELSE IF out = "fail"
    THEN [raised |-> "Failed to fetch branches", branches |-> <<>>]
    ELSE [raised |-> None, branches |-> BranchesOfLines(split(strip(stdout), "\n"))]

\* fetch_branches: the GitError it raises (None: it returns), and the list
\* it returns
fetch_branches(out, stdout) ==
    IF out = "timeout"
    THEN [raised |-> "Timeout while fetching branches", branches |-> <<>>]
    ELSE IF out = "fail"
    THEN [raised |-> "Failed to fetch branches", branches |-> <<>>]
    ELSE [raised |-> None, branches |-> sorted(BranchesOfLines(split(strip(stdout), "\n")))]

\* longest output followed
MaxLines == 3

\* the branches a remote may have (a name may hold any ref text between
\* slashes, refs and heads included)
RemoteBranches == {"main", "dev", "Zed", "dev-2", "fix/refs/heads/x"}

\* the refs of the output, in the order git writes them, with repeats
RefLists == UNION {[1..n -> RemoteBranches] : n \in 0..MaxLines}

\* the text git writes for the refs: <hash><TAB>refs/heads/<branch><NEWLINE>
RECURSIVE StdoutOf(_)
StdoutOf(refs) ==
    IF refs = <<>> THEN ""
    ELSE "0a1b" \o "\t" \o "refs/heads/" \o Head(refs) \o "\n" \o StdoutOf(Tail(refs))

FetchInit ==
    /\ AtRest
    /\ \E refs \in RefLists, out \in CmdOutcomes :
        fn_call = [fn |-> "fetch_branches", heads |-> refs, out |-> out,
                   stdout |-> IF out = "ok" THEN StdoutOf(refs) ELSE "",
                   returned |-> FALSE, raised |-> None, branches |-> <<>>]

\* fetch_branches(repo_url) runs the command and returns or raises
FetchBranches ==
    /\ ~fn_call.returned
    /\ fn_call' = [fn_call EXCEPT
            !.returned = TRUE,
            !.raised = fetch_branches(fn_call.out, fn_call.stdout).raised,
            !.branches = fetch_branches(fn_call.out, fn_call.stdout).branches]
    /\ UNCHANGED programVars

FetchNext == FetchBranches

FetchSpec == FetchInit /\ [][FetchNext]_vars

\* how often x is in seq
Count(seq, x) == Cardinality({i \in 1..Len(seq) : seq[i] = x})

\* ---------------------------------------------------------------------
\* C23: the list returned is in lexicographic order whatever the order of
\* the output lines, has one entry per output line (a ref written twice is
\* listed twice), and is the empty list, not an error, when the remote has
\* no branch.
C23_SortedKeepingDuplicates ==
    (fn_call.fn = "fetch_branches" /\ fn_call.returned /\ fn_call.out = "ok") =>
        /\ fn_call.raised = None
        /\ Len(fn_call.branches) = Len(fn_call.heads)
        /\ \A i \in 1..(Len(fn_call.branches) - 1) :
            ~StrLess(fn_call.branches[i + 1], fn_call.branches[i])
        /\ \A i \in 1..Len(fn_call.heads) :
            Count(fn_call.branches, replace("refs/heads/" \o fn_call.heads[i], "refs/heads/"))
                >= Count(fn_call.heads, fn_call.heads[i])
        /\ fn_call.heads = <<>> => fn_call.branches = <<>>

\* main was written twice, after dev-2 and before Zed
C23_Witness ==
    /\ fn_call.fn = "fetch_branches"
    /\ fn_call.returned
    /\ fn_call.out = "ok"
    /\ fn_call.heads = <<"main", "Zed", "main">>
    /\ fn_call.branches = <<"Zed", "main", "main">>

\* ---------------------------------------------------------------------
\* C24: each output line <hash><TAB><ref> with a ref under refs/heads/
\* gives the ref without its leading refs/heads/, and nothing else is in
\* the list returned.
C24_LeadingPrefixRemoved ==
    (fn_call.fn = "fetch_branches" /\ fn_call.returned /\ fn_call.out = "ok") =>
        /\ \A i \in 1..Len(fn_call.heads) :
            \E j \in 1..Len(fn_call.branches) : fn_call.branches[j] = fn_call.heads[i]
        /\ \A j \in 1..Len(fn_call.branches) :
            \E i \in 1..Len(fn_call.heads) : fn_call.branches[j] = fn_call.heads[i]

\* ---------------------------------------------------------------------
\* C25: whenever a checkout-and-build run is started, a repository and a
\* branch are selected, and the branch is in the branch list most recently
\* fetched for that repository; a start request without a repository or
\* without a branch starts no worker.  Stated on the state right after the
\* start: the latest branch list taken off the queue is the one of the
\* run's repository and holds the run's branch.
C25_BranchOfSelectedRepository ==
    (IsBuildRun /\ Len(trace) = 1) =>
        /\ RunUrl # None
        /\ RunBranch # None
        /\ fetched.url = RunUrl
        /\ \E i \in 1..Len(fetched.branches) : fetched.branches[i] = RunBranch

\* ---------------------------------------------------------------------
\* C26: with the worker thread scheduled and the UI poll running, every
\* started worker (branch fetch or checkout-and-build) leads to the UI
\* having taken its final message off the queue with the progress dialog
\* closed and the controls enabled; disabled controls are always enabled
\* again.
FinalMessageConsumed ==
    /\ worker.pc = "idle"
    /\ task_queue = <<>>
    /\ consumed # <<>>
    /\ consumed[Len(consumed)].type \in TerminalTypes
    /\ progress_dialog = None
    /\ controls_enabled

C26_WorkerLeadsToEnabledControls ==
    (worker.pc # "idle" \/ ~controls_enabled) ~> FinalMessageConsumed

\* a branch fetch has failed, its error has been taken off the queue and the
\* controls are enabled again
C26_Witness ==
    /\ FinalMessageConsumed
    /\ ~IsBuildRun
    /\ trace # <<>>
    /\ consumed[Len(consumed)].type = "error"
    /\ runs = MaxRuns

\* ---------------------------------------------------------------------
\* C27: no update of the configuration file is lost, however the worker's
\* set_last_used and the UI thread's add_repository interleave: once a run
\* has put build_success the file holds the run's (url, branch) as
\* last-used, and every repository the UI has added and still lists is in
\* the stored list.
C27_NoLostUpdate ==
    /\ (IsBuildRun /\ HasPut("build_success")) =>
           get_last_used(config_file) = <<RunUrl, RunBranch>>
    /\ ui.pc = "idle" => UrlsOf(repositories) \subseteq UrlsOf(StoredRepositories)

\* ---------------------------------------------------------------------
\* C28: whenever no handler is running, the repository list the UI holds
\* is the stored repository list: the same records in the same order, after
\* the start-up load with its auto-add and after any adds and removes.
C28_ShownListIsStoredList ==
    ui.pc = "idle" => repositories = StoredRepositories
====
